---- MODULE Spec2Model ----
(***************************************************************************)
(* A model of the Qlik Sense stream service (qlik_sense/services/stream.py) *)
(* and of the end-to-end harness (tests/test_e2e/config.py).               *)
(*                                                                         *)
(* The program's state is the server's stream, user and app collections,   *)
(* the caller's stream objects (create and create_many change them in      *)
(* place), the service objects' fields, and the record of the call that    *)
(* has just returned: its arguments, the client calls it issued in order,  *)
(* and what it returned or raised.                                         *)
(***************************************************************************)
EXTENDS Integers, Sequences, FiniteSets

VARIABLES
    store,      \* the server's streams: a set of full rows [id, name, owner]
    users,      \* the server's users: a set of user ids
    deleted,    \* deleted[i]: the service instance whose delete removed stream i (0: none)
    apps,       \* the server's apps: a set of rows [id, stream, owner]
    requests,   \* StreamService.requests, the class-level list
    client,     \* client[s]: the client of service instance s
    url,        \* url[s]: the url of service instance s
    op,         \* the method that has just returned ("idle": none)
    self,       \* the service instance it was called on
    arg,        \* its scalar arguments [id, filter_by, full_attribution]
    refs,       \* its stream arguments, as references into the caller's objects
    heap0,      \* the caller's stream objects when the call was made
    heap,       \* the caller's stream objects when the call returned
    calls,      \* the client calls the method issued, in order
    result      \* what the method returned, or that it raised

vars == <<store, users, deleted, apps, requests, client, url,
          op, self, arg, refs, heap0, heap, calls, result>>

-----------------------------------------------------------------------------
(* Bounds of the model *)

MaxId == 2
MaxBatch == 2

NoId == 0
Ids == 1..MaxId
Names == {"pytest", "other"}
NoOwner == "none"
Users == {"u1", "u2"}
Services == {1, 2}

(* A Stream and a StreamCondensed, as the schemas load them *)
Stream(id, name, owner) == [id |-> id, name |-> name, owner |-> owner]
StreamCondensed(id, name) == [id |-> id, name |-> name]

(* The user the harness creates, auth.TEST_USER_NAME *)
TEST_USER_NAME == "u1"

(* The objects a caller may hand to create and update, and to create_many *)
StreamObjects == [id : {NoId} \cup Ids, name : Names, owner : Users]
BatchObjects == [id : {NoId} \cup Ids, name : Names, owner : {TEST_USER_NAME}]

(* What a method gives back: a stream, a list, None, or an exception *)
None == [kind |-> "none", val |-> <<>>]
Raised == [kind |-> "raised", val |-> <<>>]
One(s) == [kind |-> "stream", val |-> <<s>>]
List(l) == [kind |-> "list", val |-> l]
Str(x) == [kind |-> "str", val |-> <<x>>]

NoArg == [id |-> NoId, filter_by |-> <<>>, full_attribution |-> FALSE]

(* One client call: the request, the status of the response, its body *)
Call(method, path, id, filter, body, status, resp) ==
    [method |-> method, path |-> path, id |-> id, filter |-> filter, body |-> body,
     status |-> status, resp |-> resp]

(* What a method did: the server's streams after it, the caller's objects *)
(* after it, the client calls it issued, and its result                   *)
Outcome(st, hp, cs, res) == [store |-> st, heap |-> hp, calls |-> cs, result |-> res]

(* All the orders in which the server may list the rows of S *)
Orders(S) ==
    {q \in [1..Cardinality(S) -> S] : \A i, j \in 1..Cardinality(S) : q[i] = q[j] => i = j}

RECURSIVE SeqMap(_, _)
SeqMap(schema, rows) ==
    IF rows = <<>> THEN <<>>
    ELSE <<IF schema = "StreamSchema" THEN Head(rows)
           ELSE StreamCondensed(Head(rows).id, Head(rows).name)>> \o SeqMap(schema, Tail(rows))

(* Schema.load: a row keeps the fields the schema declares *)
Load(schema, row) == SeqMap(schema, <<row>>)[1]
LoadMany(schema, rows) == SeqMap(schema, rows)

IdsOf(rows) == {r.id : r \in rows}
Lookup(st, id) == {r \in st : r.id = id}

-----------------------------------------------------------------------------
(* The server's filter expressions. A filter is the text the service      *)
(* builds, kept as its pieces; the server parses it back.                 *)

NoFilter == <<>>
WellFormed(f) == f = NoFilter \/ (Len(f) = 3 /\ f[1] = "name eq '" /\ f[3] = "'")
Matches(row, f) == f = NoFilter \/ row.name = f[2]

-----------------------------------------------------------------------------
(* BaseService: the helpers StreamService delegates to *)

\* _query: one GET on the collection; None when the response is empty or no list
_query(st, schema, filter_by, full_attribution) ==
    LET path == IF full_attribution THEN "/qrs/stream/full" ELSE "/qrs/stream"
        rq(status, rows) == Call("GET", path, NoId, filter_by, <<>>, status, rows)
        found == {r \in st : Matches(r, filter_by)}
    IN  {Outcome(st, <<>>, <<rq("rejected", <<>>)>>, None),
         Outcome(st, <<>>, <<rq("raised", <<>>)>>, Raised)}
        \cup (IF ~WellFormed(filter_by) THEN {}
              ELSE {Outcome(st, <<>>, <<rq("ok", rows)>>,
                            IF rows = <<>> THEN None ELSE List(LoadMany(schema, rows)))
                    : rows \in Orders(found)})

\* _get: one GET by id; None when the server has no such entity
_get(st, schema, id) ==
    LET rq(status, rows) == Call("GET", "/qrs/stream/{id}", id, <<>>, <<>>, status, rows)
    IN  {Outcome(st, <<>>, <<rq("raised", <<>>)>>, Raised)}
        \cup (IF Lookup(st, id) = {}
              THEN {Outcome(st, <<>>, <<rq("rejected", <<>>)>>, None)}
              ELSE {Outcome(st, <<>>, <<rq("ok", <<r>>)>>, One(Load(schema, r)))
                    : r \in Lookup(st, id)})

\* _get_template: one GET of a default instance, which carries a new id
TemplatePath == "/qrs/about/api/default/stream"
_get_template(st, schema, taken) ==
    LET rq(status, rows) == Call("GET", TemplatePath, NoId, <<>>, <<>>, status, rows)
    IN  {Outcome(st, <<>>, <<rq("rejected", <<>>)>>, None),
         Outcome(st, <<>>, <<rq("raised", <<>>)>>, Raised)}
        \cup {Outcome(st, <<>>, <<rq("ok", <<Stream(i, "", NoOwner)>>)>>,
                      One(Load(schema, Stream(i, "", NoOwner))))
              : i \in Ids \ (IdsOf(st) \cup taken)}

\* _create: one POST of the entity; the created object, or None when refused
_create(st, schema, entity) ==
    LET rq(status, rows) == Call("POST", "/qrs/stream", NoId, <<>>, <<entity>>, status, rows)
    IN  {Outcome(st, <<>>, <<rq("rejected", <<>>)>>, None),
         Outcome(st, <<>>, <<rq("raised", <<>>)>>, Raised)}
        \cup (IF entity.id \in IdsOf(st) THEN {}
              ELSE {Outcome(st \cup {entity}, <<>>, <<rq("ok", <<entity>>)>>,
                            One(Load(schema, entity)))})

\* _create_many: one POST of the batch; the created objects in input order
_create_many(st, schema, entities) ==
    LET rq(status, rows) == Call("POST", "/qrs/stream/many", NoId, <<>>, entities, status, rows)
        ids == {entities[i].id : i \in DOMAIN entities}
        distinct == \A i, j \in DOMAIN entities : entities[i].id = entities[j].id => i = j
    IN  {Outcome(st, <<>>, <<rq("rejected", <<>>)>>, None),
         Outcome(st, <<>>, <<rq("raised", <<>>)>>, Raised)}
        \cup (IF ~distinct \/ ids \cap IdsOf(st) # {} THEN {}
              ELSE {Outcome(st \cup {entities[i] : i \in DOMAIN entities}, <<>>,
                            <<rq("ok", entities)>>, List(LoadMany(schema, entities)))})

\* _update: one PUT of the full entity by id; the updated object
_update(st, schema, entity) ==
    LET rq(status, rows) ==
            Call("PUT", "/qrs/stream/{id}", entity.id, <<>>, <<entity>>, status, rows)
    IN  {Outcome(st, <<>>, <<rq("rejected", <<>>)>>, None),
         Outcome(st, <<>>, <<rq("raised", <<>>)>>, Raised)}
        \cup (IF Lookup(st, entity.id) = {} THEN {}
              ELSE {Outcome((st \ Lookup(st, entity.id)) \cup {entity}, <<>>,
                            <<rq("ok", <<entity>>)>>, One(Load(schema, entity)))})

\* _delete: one DELETE by id; no content, and the server's error is not suppressed
_delete(st, entity) ==
    LET rq(status) == Call("DELETE", "/qrs/stream/{id}", entity.id, <<>>, <<>>, status, <<>>)
    IN  {Outcome(st, <<>>, <<rq("raised")>>, Raised)}
        \cup (IF Lookup(st, entity.id) = {} THEN {}
              ELSE {Outcome(st \ Lookup(st, entity.id), <<>>, <<rq("ok")>>, None)})

-----------------------------------------------------------------------------
(* StreamService *)

\* (a variant that ignores the flag)
SchemaFor_full(full_attribution) == "StreamSchema"

\* query: the schema follows full_attribution alone
SchemaFor(full_attribution) ==
    IF full_attribution THEN "StreamSchema" ELSE "StreamCondensedSchema"

query(st, filter_by, full_attribution) ==
    _query(st, SchemaFor(full_attribution), filter_by, full_attribution)

\* get_by_name: the filter text, and the first element of a non-empty list
NameFilter(name) == <<"name eq '", name, "'">>

\* (a variant that takes the last element)
LastOrNone(streams) ==
    IF streams.kind = "list" /\ Len(streams.val) > 0
    THEN One(streams.val[Len(streams.val)]) ELSE None

FirstOrNone(streams) ==
    IF streams.kind = "list" /\ Len(streams.val) > 0 THEN One(streams.val[1]) ELSE None

get_by_name(st, name, full_attribution) ==
    {Outcome(q.store, <<>>, q.calls,
             IF q.result.kind = "raised" THEN Raised ELSE FirstOrNone(q.result))
     : q \in query(st, NameFilter(name), full_attribution)}

\* (a variant that answers from a remembered stream)
get_stale(st, id) ==
    {Outcome(g.store, <<>>, g.calls,
             IF g.result.kind = "raised" THEN Raised ELSE One(Stream(id, "pytest", TEST_USER_NAME)))
     : g \in _get(st, "StreamSchema", id)}

get(st, id) == _get(st, "StreamSchema", id)

get_template(st, taken) == _get_template(st, "StreamSchema", taken)

\* (a variant that asks for the template twice)
get_new_id_retry(st, taken) ==
    {Outcome(t.store, <<>>, t.calls \o t.calls,
             IF t.result.kind = "stream" THEN Str(t.result.val[1].id) ELSE Raised)
     : t \in _get_template(st, "StreamSchema", taken)}

\* get_new_id: the template's id; a template of None has no id to read
get_new_id(st, taken) ==
    {Outcome(t.store, <<>>, t.calls,
             IF t.result.kind = "stream" THEN Str(t.result.val[1].id) ELSE Raised)
     : t \in get_template(st, taken)}

\* (variants of the backfill: never, always, and one that keeps the template)
NeedsId_never(stream) == FALSE
NeedsId_always(stream) == TRUE
WithId_template(stream, id) == Stream(id, "", NoOwner)

\* the id backfill of create and create_many
NeedsId(stream) == stream.id = NoId
WithId(stream, id) == [stream EXCEPT !.id = id]
HeapIds(hp) == {hp[i].id : i \in DOMAIN hp} \ {NoId}

create(st, hp, r) ==
    IF NeedsId(hp[r])
    THEN UNION {
           IF n.result.kind = "str"
           THEN LET hp2 == [hp EXCEPT ![r] = WithId(hp[r], n.result.val[1])]
                IN  {Outcome(c.store, hp2, n.calls \o c.calls, c.result)
                     : c \in _create(st, "StreamSchema", hp2[r])}
           ELSE {Outcome(st, hp, n.calls, Raised)}
           : n \in get_new_id(st, HeapIds(hp))}
    ELSE {Outcome(c.store, hp, c.calls, c.result) : c \in _create(st, "StreamSchema", hp[r])}

\* the loop of create_many: one get_new_id per stream that has no id when reached
RECURSIVE Backfill(_, _, _, _)
Backfill(st, hp, rs, cs) ==
    IF rs = <<>> THEN {Outcome(st, hp, cs, None)}
    ELSE IF NeedsId(hp[Head(rs)])
    THEN UNION {
           IF n.result.kind = "str"
           THEN Backfill(st, [hp EXCEPT ![Head(rs)] = WithId(hp[Head(rs)], n.result.val[1])],
                         Tail(rs), cs \o n.calls)
           ELSE {Outcome(st, hp, cs \o n.calls, Raised)}
           : n \in get_new_id(st, HeapIds(hp))}
    ELSE Backfill(st, hp, Tail(rs), cs)

\* (a variant that hands the streams over in reverse)
Entities_reversed(hp, rs) == [i \in DOMAIN rs |-> hp[rs[Len(rs) + 1 - i]]]

Entities(hp, rs) == [i \in DOMAIN rs |-> hp[rs[i]]]

create_many(st, hp, rs) ==
    UNION {
      IF b.result.kind = "raised" THEN {b}
      ELSE {Outcome(c.store, b.heap, b.calls \o c.calls, c.result)
            : c \in _create_many(st, "StreamSchema", Entities(b.heap, rs))}
      : b \in Backfill(st, hp, rs, <<>>)}

update(st, hp, r) ==
    {Outcome(u.store, hp, u.calls, u.result) : u \in _update(st, "StreamSchema", hp[r])}

\* (a variant that sends no request)
delete_nothing(st, stream) == {Outcome(st, <<>>, <<>>, None)}

delete(st, stream) == _delete(st, stream)

-----------------------------------------------------------------------------
(* The user and app services the harness calls, in the same convention *)

User(u) == [id |-> u, user_name |-> u, user_directory |-> "pytest_dir"]
UserOutcome(us, cs, res) == [users |-> us, calls |-> cs, result |-> res]

user_create(us, u) ==
    LET rq(status, rows) == Call("POST", "/qrs/user", u, <<>>, <<User(u)>>, status, rows)
    IN  {UserOutcome(us, <<rq("rejected", <<>>)>>, None),
         UserOutcome(us, <<rq("raised", <<>>)>>, Raised)}
        \cup (IF u \in us THEN {}
              ELSE {UserOutcome(us \cup {u}, <<rq("ok", <<User(u)>>)>>, One(User(u)))})

user_get(us, u) ==
    LET rq(status, rows) == Call("GET", "/qrs/user/{id}", u, <<>>, <<>>, status, rows)
    IN  {UserOutcome(us, <<rq("raised", <<>>)>>, Raised),
         IF u \in us THEN UserOutcome(us, <<rq("ok", <<User(u)>>)>>, One(User(u)))
         ELSE UserOutcome(us, <<rq("rejected", <<>>)>>, None)}

user_delete(us, u) ==
    LET rq(status) == Call("DELETE", "/qrs/user/{id}", u, <<>>, <<>>, status, <<>>)
    IN  {UserOutcome(us, <<rq("raised")>>, Raised)}
        \cup (IF u \in us THEN {UserOutcome(us \ {u}, <<rq("ok")>>, None)} ELSE {})

App(id, stream, owner) == [id |-> id, stream |-> stream, owner |-> owner]
AppOutcome(ap, cs, res) == [apps |-> ap, calls |-> cs, result |-> res]

\* app.query: a filter the server cannot parse may be refused or read leniently
app_query(ap, filter, found) ==
    LET rq(status, rows) == Call("GET", "/qrs/app", NoId, filter, <<>>, status, rows)
    IN  {AppOutcome(ap, <<rq("rejected", <<>>)>>, None),
         AppOutcome(ap, <<rq("raised", <<>>)>>, Raised)}
        \cup {AppOutcome(ap, <<rq("ok", rows)>>, IF rows = <<>> THEN None ELSE List(rows))
              : rows \in Orders(found)}

app_delete(ap, app) ==
    LET rq(status) == Call("DELETE", "/qrs/app/{id}", app.id, <<>>, <<>>, status, <<>>)
    IN  {AppOutcome(ap, <<rq("raised")>>, Raised)}
        \cup (IF app \in ap THEN {AppOutcome(ap \ {app}, <<rq("ok")>>, None)} ELSE {})

-----------------------------------------------------------------------------
(* The end-to-end harness *)

AssertionError == [kind |-> "assert", val |-> <<>>]
HarnessOutcome(st, us, hp, cs, res) ==
    [store |-> st, users |-> us, heap |-> hp, calls |-> cs, result |-> res]

create_test_user(st, us, name) ==
    UNION {
      IF c.result.kind # "stream" THEN {HarnessOutcome(st, c.users, <<>>, c.calls, Raised)}
      ELSE {HarnessOutcome(st, g.users, <<>>, c.calls \o g.calls,
                           IF g.result.kind = "none" THEN AssertionError ELSE g.result)
            : g \in user_get(c.users, c.result.val[1].id)}
      : c \in user_create(us, name)}

delete_test_user(st, us, test_user) ==
    UNION {
      IF d.result.kind = "raised" THEN {HarnessOutcome(st, d.users, <<>>, d.calls, Raised)}
      ELSE {HarnessOutcome(st, g.users, <<>>, d.calls \o g.calls,
                           IF g.result.kind = "stream" THEN AssertionError
                           ELSE g.result)
            : g \in user_get(d.users, test_user.id)}
      : d \in user_delete(us, test_user.id)}

create_test_stream(st, us, test_owner) ==
    LET stream_stub == Stream(NoId, "pytest", test_owner.id)
    IN  UNION {
          IF c.result.kind # "stream" THEN {HarnessOutcome(c.store, us, c.heap, c.calls, Raised)}
          ELSE {HarnessOutcome(g.store, us, c.heap, c.calls \o g.calls,
                               IF g.result.kind = "none" THEN AssertionError ELSE g.result)
                : g \in get(c.store, c.result.val[1].id)}
          : c \in create(st, <<stream_stub>>, 1)}

delete_test_stream(st, us, test_stream) ==
    UNION {
      IF d.result.kind = "raised" THEN {HarnessOutcome(d.store, us, <<>>, d.calls, Raised)}
      ELSE {HarnessOutcome(g.store, us, <<>>, d.calls \o g.calls,
                           IF g.result.kind = "stream" THEN AssertionError
                           ELSE g.result)
            : g \in get(d.store, test_stream.id)}
      : d \in delete(st, test_stream)}

\* delete_test_apps: what test_apps is bound to after the isinstance test
ListAppend(l, x) == None
TestApps(test_apps_by_stream, test_apps_by_owner) ==
    IF test_apps_by_stream.kind = "list"
    THEN ListAppend(test_apps_by_stream, test_apps_by_owner)
    ELSE test_apps_by_owner

RECURSIVE DeleteEach(_, _, _)
DeleteEach(ap, test_apps, cs) ==
    IF test_apps = <<>> THEN {AppOutcome(ap, cs, None)}
    ELSE UNION {
           IF d.result.kind = "raised" THEN {AppOutcome(d.apps, cs \o d.calls, Raised)}
           ELSE DeleteEach(d.apps, Tail(test_apps), cs \o d.calls)
           : d \in app_delete(ap, Head(test_apps))}

StreamFilter(name) == <<"stream.name eq '", name>>
Upper(text) == IF text = "pytest_dir" THEN "PYTEST_DIR" ELSE text
OwnerFilter(test_owner) ==
    <<"owner.userId eq '", test_owner.user_name, "' and owner.userDirectory eq '",
      Upper(test_owner.user_directory), "'">>

delete_test_apps(ap, test_stream, test_owner) ==
    UNION {
      IF s.result.kind = "raised" THEN {s}
      ELSE UNION {
             IF o.result.kind = "raised" THEN {AppOutcome(ap, s.calls \o o.calls, Raised)}
             ELSE LET test_apps == TestApps(s.result, o.result)
                  IN  IF test_apps.kind = "list"
                      THEN DeleteEach(ap, test_apps.val, s.calls \o o.calls)
                      ELSE {AppOutcome(ap, s.calls \o o.calls, None)}
             : o \in app_query(ap, OwnerFilter(test_owner),
                               {a \in ap : a.owner = test_owner.id})}
      : s \in app_query(ap, StreamFilter(test_stream.name),
                        {a \in ap : a.stream = test_stream.name})}

-----------------------------------------------------------------------------
(* The state machine *)

Clients == [s \in Services |-> IF s = 1 THEN "qs_ssl" ELSE "qs_ntlm"]

\* StreamService.__init__, on a server that holds nothing yet
Init ==
    /\ store = {}
    /\ users = {}
    /\ deleted = [i \in Ids |-> 0]
    /\ apps = {}
    /\ requests = <<>>
    /\ client = Clients
    /\ url = [s \in Services |-> "/qrs/stream"]
    /\ op = "idle"
    /\ self = 0
    /\ arg = NoArg
    /\ refs = <<>>
    /\ heap0 = <<>>
    /\ heap = <<>>
    /\ calls = <<>>
    /\ result = None

\* A stream's delete is remembered until a stream of that id exists again
Deleted(st, st2, s) ==
    [i \in Ids |-> IF i \in IdsOf(st2) THEN 0
                   ELSE IF i \in IdsOf(st) THEN s
                   ELSE deleted[i]]

\* A method of service instance s returns with outcome o
Returns(name, s, a, rs, hp0, o) ==
    /\ op' = name
    /\ self' = s
    /\ arg' = a
    /\ refs' = rs
    /\ heap0' = hp0
    /\ heap' = o.heap
    /\ calls' = o.calls
    /\ result' = o.result
    /\ store' = o.store
    /\ deleted' = Deleted(store, o.store, s)
    /\ UNCHANGED <<requests, client, url>>

Filters == {NoFilter} \cup {NameFilter(n) : n \in Names}

\* The lists of streams a caller may pass: rs[i] is the object at position i,
\* and the same object may stand at several positions
RefLists ==
    {rs \in UNION {[1..k -> 1..k] : k \in 1..MaxBatch} :
        /\ rs[1] = 1
        /\ \A i \in DOMAIN rs : i > 1 => \E j \in 1..(i-1) : rs[i] <= rs[j] + 1}
Distinct(rs) == Cardinality({rs[i] : i \in DOMAIN rs})

Call_query ==
    /\ op = "idle"
    /\ \E s \in Services, f \in Filters, full \in BOOLEAN :
      \E o \in query(store, f, full) :
        /\ Returns("query", s, [NoArg EXCEPT !.filter_by = f, !.full_attribution = full],
                   <<>>, <<>>, o)
        /\ UNCHANGED <<users, apps>>

Call_get_by_name ==
    /\ op = "idle"
    /\ \E s \in Services, n \in Names, full \in BOOLEAN :
      \E o \in get_by_name(store, n, full) :
        /\ Returns("get_by_name", s,
                   [NoArg EXCEPT !.filter_by = <<n>>, !.full_attribution = full], <<>>, <<>>, o)
        /\ UNCHANGED <<users, apps>>

Call_get ==
    /\ op = "idle"
    /\ \E s \in Services, i \in Ids :
      \E o \in get(store, i) :
        /\ Returns("get", s, [NoArg EXCEPT !.id = i], <<>>, <<>>, o)
        /\ UNCHANGED <<users, apps>>

Call_get_template ==
    /\ op = "idle"
    /\ \E s \in Services :
      \E o \in get_template(store, {}) :
        /\ Returns("get_template", s, NoArg, <<>>, <<>>, o)
        /\ UNCHANGED <<users, apps>>

Call_get_new_id ==
    /\ op = "idle"
    /\ \E s \in Services :
      \E o \in get_new_id(store, {}) :
        /\ Returns("get_new_id", s, NoArg, <<>>, <<>>, o)
        /\ UNCHANGED <<users, apps>>

Call_create ==
    /\ op = "idle"
    /\ \E s \in Services, stream \in StreamObjects :
      \E o \in create(store, <<stream>>, 1) :
        /\ Returns("create", s, NoArg, <<1>>, <<stream>>, o)
        /\ UNCHANGED <<users, apps>>

Call_create_many ==
    /\ op = "idle"
    /\ \E s \in {1}, rs \in RefLists :
      \E hp \in [1..Distinct(rs) -> BatchObjects] :
        \E o \in create_many(store, hp, rs) :
          /\ Returns("create_many", s, NoArg, rs, hp, o)
          /\ UNCHANGED <<users, apps>>

Call_update ==
    /\ op = "idle"
    /\ \E s \in Services, stream \in StreamObjects :
      \E o \in update(store, <<stream>>, 1) :
        /\ Returns("update", s, NoArg, <<1>>, <<stream>>, o)
        /\ UNCHANGED <<users, apps>>

Call_delete ==
    /\ op = "idle"
    /\ \E s \in Services, i \in Ids, n \in Names :
      \E o \in delete(store, StreamCondensed(i, n)) :
        /\ Returns("delete", s, [NoArg EXCEPT !.id = i], <<>>, <<>>, o)
        /\ UNCHANGED <<users, apps>>

Harness_create_test_user ==
    /\ op = "idle"
    /\ \E name \in {TEST_USER_NAME} :
      \E o \in create_test_user(store, users, name) :
        /\ Returns("create_test_user", 1, [NoArg EXCEPT !.filter_by = <<name>>], <<>>, <<>>, o)
        /\ users' = o.users
        /\ UNCHANGED apps

Harness_delete_test_user ==
    /\ op = "idle"
    /\ \E u \in {TEST_USER_NAME} :
      \E o \in delete_test_user(store, users, User(u)) :
        /\ Returns("delete_test_user", 1, [NoArg EXCEPT !.filter_by = <<u>>], <<>>, <<>>, o)
        /\ users' = o.users
        /\ UNCHANGED apps

Harness_create_test_stream ==
    /\ op = "idle"
    /\ \E u \in Users :
      \E o \in create_test_stream(store, users, User(u)) :
        /\ Returns("create_test_stream", 1, [NoArg EXCEPT !.filter_by = <<u>>], <<1>>,
                   <<Stream(NoId, "pytest", u)>>, o)
        /\ UNCHANGED <<users, apps>>

Harness_delete_test_stream ==
    /\ op = "idle"
    /\ \E i \in Ids, n \in Names :
      \E o \in delete_test_stream(store, users, StreamCondensed(i, n)) :
        /\ Returns("delete_test_stream", 1, [NoArg EXCEPT !.id = i], <<>>, <<>>, o)
        /\ UNCHANGED <<users, apps>>

\* The caller drops the arguments and the result of the call: nothing is kept
Return ==
    /\ op # "idle"
    /\ op' = "idle"
    /\ self' = 0
    /\ arg' = NoArg
    /\ refs' = <<>>
    /\ heap0' = <<>>
    /\ heap' = <<>>
    /\ calls' = <<>>
    /\ result' = None
    /\ UNCHANGED <<store, users, deleted, apps, requests, client, url>>

Next ==
    \/ Call_query
    \/ Call_get_by_name
    \/ Call_get
    \/ Call_get_template
    \/ Call_get_new_id
    \/ Call_create
    \/ Call_create_many
    \/ Call_update
    \/ Call_delete
    \/ Harness_create_test_user
    \/ Harness_delete_test_user
    \/ Harness_create_test_stream
    \/ Harness_delete_test_stream
    \/ Return

Spec == Init /\ [][Next]_vars

-----------------------------------------------------------------------------
(* The harness's teardown of the apps, on a server that already holds apps *)

AppRows == {App(i, n, u) : i \in Ids, n \in Names \cup {"none"}, u \in Users}
AppStates == {ap \in SUBSET AppRows : \A a, b \in ap : a.id = b.id => a = b}

InitApps ==
    /\ Init!1 /\ Init!2 /\ Init!3
    /\ apps \in AppStates
    /\ Init!5 /\ Init!6 /\ Init!7 /\ Init!8 /\ Init!9 /\ Init!10
    /\ Init!11 /\ Init!12 /\ Init!13 /\ Init!14 /\ Init!15

Harness_delete_test_apps ==
    /\ op = "idle"
    /\ \E i \in Ids, n \in Names, u \in Users :
      \E o \in delete_test_apps(apps, StreamCondensed(i, n), User(u)) :
        /\ op' = "delete_test_apps"
        /\ self' = 1
        /\ arg' = [NoArg EXCEPT !.id = i, !.filter_by = <<n, u>>]
        /\ calls' = o.calls
        /\ result' = o.result
        /\ apps' = o.apps
        /\ UNCHANGED <<store, users, deleted, requests, client, url, refs, heap0, heap>>

NextApps == Harness_delete_test_apps \/ Return

SpecApps == InitApps /\ [][NextApps]_vars

-----------------------------------------------------------------------------
(* Properties *)

IsTemplateGet(c) == c.method = "GET" /\ c.path = TemplatePath
IsPost(c) == c.method = "POST"
TemplateGets(cs) == {k \in DOMAIN cs : IsTemplateGet(cs[k])}
Posts(cs) == {k \in DOMAIN cs : IsPost(cs[k])}
\* the caller's objects among the arguments that had no id when the call was made
IdLess(hp, rs) == {rs[i] : i \in DOMAIN rs} \cap {k \in DOMAIN hp : hp[k].id = NoId}
GetReturns(st, id) == {g.result : g \in {o \in get(st, id) : o.result.kind # "raised"}}

\* C1: after create(E) has returned the created stream, every get of its id that
\* returns gives a stream with E's name and owner, whatever the server held
\* before; the harness's create_test_stream never fails its assertion.
C1_CreateThenGet ==
    /\ (op = "create" /\ result.kind = "stream") =>
          \A g \in GetReturns(store, result.val[1].id) :
              /\ g.kind = "stream"
              /\ g.val[1].name = heap0[1].name
              /\ g.val[1].owner = heap0[1].owner
    /\ op = "create_test_stream" =>
          /\ result.kind # "assert"
          /\ result.kind = "stream" =>
                /\ result.val[1].name = "pytest"
                /\ result.val[1].owner = heap0[1].owner

C1_Witness ==
    /\ op = "create" /\ result.kind = "stream"
    /\ heap0[1].id = NoId
    /\ Cardinality(store) >= 2

\* C3: a create on a stream with no id sends no POST before a template GET has
\* answered, and the POST body carries the id of that template, which is not null.
C3_IdBeforePost ==
    (op \in {"create", "create_test_stream"} /\ heap0[1].id = NoId) =>
        \A k \in Posts(calls) :
            /\ calls[k].body[1].id # NoId
            /\ heap[1].id = calls[k].body[1].id
            /\ \E j \in TemplateGets(calls) :
                  /\ j < k
                  /\ calls[j].status = "ok"
                  /\ calls[j].resp[1].id = calls[k].body[1].id

C3_Witness ==
    /\ op = "create" /\ heap0[1].id = NoId
    /\ Len(calls) = 2 /\ IsPost(calls[2]) /\ calls[2].status = "ok"

\* C4: get_by_name returns None when the query gave None (no stream of that name,
\* an empty list, a refused call), and otherwise the first element of the query's
\* list: the one stream of that name when there is exactly one, one of them when
\* there are several.
C4_GetByName ==
    (op = "get_by_name" /\ result.kind # "raised") =>
        LET name == arg.filter_by[1]
            schema == IF arg.full_attribution THEN "StreamSchema" ELSE "StreamCondensedSchema"
            matching == {r \in store : r.name = name}
            rows == calls[1].resp
        IN  /\ Len(calls) = 1
            /\ calls[1].filter = <<"name eq '", name, "'">>
            /\ (calls[1].status # "ok" \/ rows = <<>>) => result = None
            /\ matching = {} => result = None
            /\ (calls[1].status = "ok" /\ matching # {}) =>
                  /\ result = One(Load(schema, rows[1]))
                  /\ rows[1] \in matching
                  /\ Cardinality(matching) = 1 => matching = {rows[1]}

C4_Witness ==
    /\ op = "get_by_name" /\ result.kind = "stream"
    /\ Len(calls[1].resp) >= 2
    /\ calls[1].resp[1].id > calls[1].resp[2].id

\* C5: the list create_many returns is as long as its input, and its i-th element
\* has the name of the i-th input stream, also when the backfill gave ids.
C5_CreateManyOrder ==
    (op = "create_many" /\ result.kind = "list") =>
        /\ Len(result.val) = Len(refs)
        /\ \A i \in DOMAIN refs : result.val[i].name = heap0[refs[i]].name

C5_Witness ==
    /\ op = "create_many" /\ result.kind = "list"
    /\ Len(refs) >= 2
    /\ heap0[refs[1]].name # heap0[refs[2]].name
    /\ IdLess(heap0, refs) # {}

\* C6: the list query returns has, per row of the server's answer and in its
\* order, the fields id and name alone when full_attribution is false and all
\* the fields when it is true, whatever the filter: the condensed list is the
\* projection of the full one.
C6_QuerySchema ==
    (op = "query" /\ result.kind = "list") =>
        LET rows == calls[1].resp
        IN  /\ Len(result.val) = Len(rows)
            /\ {rows[i] : i \in DOMAIN rows} = {r \in store : Matches(r, arg.filter_by)}
            /\ \A i \in DOMAIN rows :
                  /\ result.val[i].id = rows[i].id
                  /\ result.val[i].name = rows[i].name
                  /\ DOMAIN result.val[i] =
                        IF arg.full_attribution THEN {"id", "name", "owner"} ELSE {"id", "name"}
                  /\ arg.full_attribution => result.val[i] = rows[i]

C6_Witness ==
    /\ op = "query" /\ result.kind = "list"
    /\ ~arg.full_attribution
    /\ arg.filter_by # NoFilter
    /\ Len(result.val) >= 2

\* After a delete that returned, a get of that id that returns gives None, for
\* streams and for the harness's user; the harness's assertions hold.
C2_AfterDelete ==
    /\ (op = "delete" /\ result.kind # "raised") =>
          /\ GetReturns(store, arg.id) = {None}
          /\ deleted[arg.id] # 0
    /\ op \in {"delete_test_stream", "delete_test_user"} => result.kind # "assert"
    /\ (op = "delete_test_user" /\ result.kind = "none") =>
          \A g \in user_get(users, TEST_USER_NAME) : g.result.kind \in {"none", "raised"}
    /\ \A i \in Ids : deleted[i] # 0 => GetReturns(store, i) = {None}

\* A deleted stream exists again only through a POST that carries its id.
C2_OnlyCreateRevives ==
    \A i \in Ids :
        (deleted[i] # 0 /\ GetReturns(store', i) # {None}) =>
            /\ op' \in {"create", "create_many", "create_test_stream"}
            /\ \E k \in Posts(calls') :
                  /\ calls'[k].status = "ok"
                  /\ \E j \in DOMAIN calls'[k].body : calls'[k].body[j].id = i

\* C2: after delete(E) has returned for a stream E, every get of E's id that
\* returns gives None, and the harness's delete_test_stream and delete_test_user
\* never fail their assertion (the deleted user's get gives None too); a stream
\* that was deleted exists again only through a create or create_many whose POST
\* carries its id.
C2_DeleteThenGet == []C2_AfterDelete /\ [][C2_OnlyCreateRevives]_vars

C2_Witness ==
    /\ op = "delete" /\ result.kind = "none"
    /\ deleted[arg.id] = self
    /\ calls[1].status = "ok"
    /\ \E i \in Ids : i # arg.id /\ deleted[i] # 0

SingleCallOps ==
    {"query", "get_by_name", "get", "get_template", "get_new_id", "update", "delete"}

\* No call follows a call that failed
C7_NoRetry == \A k \in DOMAIN calls : k < Len(calls) => calls[k].status = "ok"

\* C7 as stated: every method issues exactly one client call, but create on a
\* stream with no id issues two (the template GET, then the POST) and create_many
\* issues one template GET per stream with no id, then its one POST; no call
\* follows a call that failed.
C7_Original ==
    /\ op \in SingleCallOps => Len(calls) = 1
    /\ op = "create" =>
          IF heap0[1].id # NoId THEN Len(calls) = 1 /\ IsPost(calls[1])
          ELSE Len(calls) = 2 /\ IsTemplateGet(calls[1]) /\ IsPost(calls[2])
    /\ op = "create_many" =>
          LET n == Cardinality(IdLess(heap0, refs))
          IN  /\ TemplateGets(calls) = 1..n
              /\ Posts(calls) = {n + 1}
              /\ Len(calls) = n + 1
    /\ C7_NoRetry

\* C7 as amended: as above while the template GETs answer with a stream; a
\* template GET that fails is the last call of create or create_many, and no
\* POST is sent.
C7_RoundTrips ==
    /\ op \in SingleCallOps => Len(calls) = 1
    /\ op = "create" =>
          IF heap0[1].id # NoId THEN Len(calls) = 1 /\ IsPost(calls[1])
          ELSE /\ IsTemplateGet(calls[1])
               /\ IF calls[1].status = "ok"
                  THEN Len(calls) = 2 /\ IsPost(calls[2])
                  ELSE Len(calls) = 1
    /\ op = "create_many" =>
          LET n == Cardinality(IdLess(heap0, refs))
              g == Cardinality(TemplateGets(calls))
          IN  /\ TemplateGets(calls) = 1..g
              /\ g <= n
              /\ IF \A k \in 1..g : calls[k].status = "ok"
                 THEN g = n /\ Len(calls) = n + 1 /\ Posts(calls) = {n + 1}
                 ELSE Len(calls) = g /\ Posts(calls) = {}
    /\ C7_NoRetry

C7_Witness ==
    /\ op = "create_many"
    /\ Cardinality(IdLess(heap0, refs)) = 2
    /\ Len(calls) = 3 /\ IsPost(calls[3])

\* C9: no method touches the class-level requests list, the client or the url,
\* and what get returns is decided by the server's streams alone: the stream of
\* that id when there is one, None when there is none, whichever instance
\* changed the server last.
C9_NoSessionState ==
    /\ requests = <<>>
    /\ client = Clients
    /\ \A s \in Services : url[s] = "/qrs/stream"
    /\ (op = "get" /\ result.kind # "raised") =>
          IF Lookup(store, arg.id) = {} THEN result = None
          ELSE result.kind = "stream" /\ result.val[1] \in Lookup(store, arg.id)

C9_Witness ==
    /\ op = "get" /\ self = 2 /\ result = None
    /\ deleted[arg.id] = 1

\* C10: create and create_many leave the name and owner of every stream of the
\* caller as they were and leave an id that was there as it was; they issue no
\* more template GETs than there are streams without an id; an id they assign is
\* the id of a template they fetched, and once a POST has been sent, answered or
\* not, every stream of the call carries the id the POST body gave it.
C10_BackfillFrame ==
    op \in {"create", "create_many"} =>
        /\ DOMAIN heap = DOMAIN heap0
        /\ \A k \in DOMAIN heap0 :
              /\ heap[k].name = heap0[k].name
              /\ heap[k].owner = heap0[k].owner
              /\ heap0[k].id # NoId => heap[k].id = heap0[k].id
              /\ (heap0[k].id = NoId /\ heap[k].id # NoId) =>
                    \E j \in TemplateGets(calls) :
                        calls[j].status = "ok" /\ calls[j].resp[1].id = heap[k].id
        /\ Cardinality(TemplateGets(calls)) <= Cardinality(IdLess(heap0, refs))
        /\ \A p \in Posts(calls) :
              /\ Len(calls[p].body) = Len(refs)
              /\ \A i \in DOMAIN refs :
                    /\ heap[refs[i]].id # NoId
                    /\ calls[p].body[i] = heap[refs[i]]

C10_Witness ==
    /\ op = "create" /\ heap0[1].id = NoId
    /\ Len(calls) = 2 /\ calls[2].status = "rejected" /\ result = None
    /\ heap[1].id # NoId

\* C8: when delete_test_apps returns, no app that either of its two queries
\* listed is left on the server.
C8_AllTestAppsDeleted ==
    (op = "delete_test_apps" /\ result.kind = "none") =>
        \A k \in {1, 2} : \A j \in DOMAIN calls[k].resp : calls[k].resp[j] \notin apps

====
